---- MODULE Spec2Model ----
(***************************************************************************)
(* Model of the Gemini relay backend (cloud-function/main.py).             *)
(*                                                                         *)
(* One request is followed through cloud_function_entrypoint, one action   *)
(* per step of the handler, in the order of the code (the Flask view       *)
(* generate_content runs the same statements in the same order).  Python   *)
(* values are                                                              *)
(* encoded as records of one shape per kind of value:                      *)
(*   - a dict is a function from its keys to values (parameters), or a     *)
(*     record holding the set of keys it has (history items, parts);       *)
(*   - None is the string "None";                                          *)
(*   - a JSON number is kept as its literal text ("0.95");                 *)
(*   - an HMAC digest is the symbolic term [key, data]: two digests are    *)
(*     equal exactly when key and bytes are equal.                         *)
(***************************************************************************)
EXTENDS Integers, Sequences, FiniteSets, TLC

VARIABLES pc, req, trail, calls, chat, raw, resp

vars == <<pc, req, trail, calls, chat, raw, resp>>

(***************************************************************************)
(* Bounds of the model.                                                    *)
(***************************************************************************)
\* longest history list a request carries
MaxHistory == 2
\* most parts in the model's first candidate
MaxParts == 2
\* most entries in the "parts" of one history item of a relayed conversation
MaxTurnParts == 2

None == "None"

(***************************************************************************)
(* Wire values.                                                            *)
(***************************************************************************)
\* entries of a history item's "parts" list
TextPart == [dict |-> FALSE, keys |-> {}, complete |-> TRUE]
CallPart == [dict |-> TRUE, keys |-> {"functionCall"}, complete |-> TRUE]
\* {"functionCall": {}}: the nested "name"/"args" are missing
BadCallPart == [dict |-> TRUE, keys |-> {"functionCall"}, complete |-> FALSE]
FunctionResponsePart == [dict |-> TRUE, keys |-> {"functionResponse"}, complete |-> TRUE]
\* an object with neither "functionCall" nor "functionResponse", e.g. {"text": "hi"}
OtherDictPart == [dict |-> TRUE, keys |-> {}, complete |-> TRUE]

Item(isDict, keys, role, partsList, parts) ==
    [dict |-> isDict, keys |-> keys, role |-> role, partsList |-> partsList, parts |-> parts]

UserText == Item(TRUE, {"role", "parts"}, "user", TRUE, <<TextPart>>)
ModelCall == Item(TRUE, {"role", "parts"}, "model", TRUE, <<CallPart>>)
ModelBadCall == Item(TRUE, {"role", "parts"}, "model", TRUE, <<BadCallPart>>)
\* a history element that is a string, not an object
NonDictItem == Item(FALSE, {}, None, FALSE, <<>>)
NoPartsItem == Item(TRUE, {"role"}, "user", FALSE, <<>>)
NoRoleItem == Item(TRUE, {"parts"}, None, TRUE, <<TextPart>>)
BadRoleItem == Item(TRUE, {"role", "parts"}, "system", TRUE, <<TextPart>>)
PartsStringItem == Item(TRUE, {"role", "parts"}, "user", FALSE, <<>>)
PartsEmptyItem == Item(TRUE, {"role", "parts"}, "user", TRUE, <<>>)

Items ==
    {UserText, ModelCall, ModelBadCall, NonDictItem, NoPartsItem, NoRoleItem,
     BadRoleItem, PartsStringItem, PartsEmptyItem}

SeqsUpTo(S, n) == UNION {[1..k -> S] : k \in 0..n}

\* the "history" member of the body: absent, null, an object, or a list
HistoryValue(kind, items) == [kind |-> kind, items |-> items]

Histories ==
    {HistoryValue(k, <<>>) : k \in {"absent", "null", "object"}}
    \cup {HistoryValue("list", s) : s \in SeqsUpTo(Items, MaxHistory)}

Num(lit) == [type |-> "number", lit |-> lit]
Str(lit) == [type |-> "string", lit |-> lit]

\* the "parameters" member: absent, an object (dict), or a non-empty string
ParametersValue(kind, dict) == [kind |-> kind, dict |-> dict]
EmptyDict == [k \in {} |-> Num("0")]

ParameterValues ==
    {ParametersValue("absent", EmptyDict),
     ParametersValue("object", EmptyDict),
     ParametersValue("object", [k \in {"temperature"} |-> Num("0.2")]),
     ParametersValue("object", [k \in {"max_output_tokens"} |-> Str("invalid_type")]),
     ParametersValue("object",
        [k \in {"top_p", "candidate_count"} |->
            IF k = "top_p" THEN Num("0.5") ELSE Num("5")]),
     ParametersValue("string", EmptyDict)}

\* the "response_schema" member: absent, or an object with `size` keys
SchemaValue(kind, size) == [kind |-> kind, size |-> size]
Schemas == {SchemaValue("absent", 0), SchemaValue("object", 0), SchemaValue("object", 1)}

ContentsValues == {"absent", "null", "hi"}

\* The raw request body: `fmt` is the serialization the bytes use, `json`
\* tells whether they parse, and to what.
Body(fmt, json, contents, history, parameters, schema) ==
    [fmt |-> fmt, json |-> json, contents |-> contents, history |-> history,
     parameters |-> parameters, response_schema |-> schema,
     tools |-> "absent", system_instruction |-> "absent"]

\* the same body with "tools" and "system_instruction" members
WithExtras(body, tools, system_instruction) ==
    [body EXCEPT !.tools = tools, !.system_instruction = system_instruction]

EmptyBody(json) ==
    Body("compact", json, "absent", HistoryValue("absent", <<>>),
         ParametersValue("absent", EmptyDict), SchemaValue("absent", 0))

Bodies ==
    {EmptyBody("invalid"), EmptyBody("array")}
    \cup {Body("compact", "object", c, h, p, s) :
            c \in ContentsValues, h \in Histories, p \in ParameterValues, s \in Schemas}

\* Conversations to relay: well-formed items of either role, their parts any
\* non-empty list of plain and structured entries.
RelayParts == {TextPart, CallPart, FunctionResponsePart, OtherDictPart}

RelayItems ==
    {Item(TRUE, {"role", "parts"}, role, TRUE, parts) :
        role \in {"user", "model"},
        parts \in SeqsUpTo(RelayParts, MaxTurnParts) \ {<<>>}}

ToolsValues == {"absent", "find_movies"}
SystemInstructions == {"absent", "You are a helpful assistant named Bob."}

RelayBodies ==
    {WithExtras(Body("compact", "object", "hi", HistoryValue("list", h),
                     ParametersValue("absent", EmptyDict), s), t, si) :
        h \in SeqsUpTo(RelayItems, MaxHistory), s \in Schemas,
        t \in ToolsValues, si \in SystemInstructions}

\* X-Signature header values sent with a body.  A digest is the symbolic
\* term of its key and the bytes it was computed over.
Secret == "vertex_cf_auth_token"

Hexdigest(key, data) == [key |-> key, data |-> data]

Signature(present, ascii, digest) == [present |-> present, ascii |-> ascii, digest |-> digest]

Respaced(body) == [body EXCEPT !.fmt = "spaced"]

SignaturesFor(body) ==
    {Signature(FALSE, TRUE, Hexdigest(None, body)),            \* header absent
     Signature(TRUE, TRUE, Hexdigest(Secret, body)),           \* signed raw bytes
     Signature(TRUE, TRUE, Hexdigest(Secret, Respaced(body))), \* signed another serialization
     Signature(TRUE, TRUE, Hexdigest("other_key", body)),      \* signed with another key
     Signature(TRUE, FALSE, Hexdigest(None, body))}            \* a non-ASCII header value

Methods == {"POST", "OPTIONS", "GET"}
Paths == {"/generate_content", "/other_path"}

Request(method, path, body, signature) ==
    [method |-> method, path |-> path, body |-> body, signature |-> signature]

(***************************************************************************)
(* is_invalid_history (main.py 21-41): the message of the first failed     *)
(* check, None when every check passes.                                    *)
(***************************************************************************)
\* mutant: the role is not checked (line 36-37 dropped)
InvalidItemAnyRole(item) ==
    IF ~item.dict THEN "Each item in history must be a dictionary"
    ELSE IF "role" \notin item.keys \/ "parts" \notin item.keys
        THEN "Each item in history must contain 'role' and 'parts'"
    ELSE IF ~item.partsList \/ item.parts = <<>> THEN "Parts must be a non-empty list"
    ELSE None

InvalidItem(item) ==
    IF ~item.dict THEN "Each item in history must be a dictionary"
    ELSE IF "role" \notin item.keys \/ "parts" \notin item.keys
        THEN "Each item in history must contain 'role' and 'parts'"
    ELSE IF item.role \notin {"user", "model"} THEN "Role must be 'user' or 'model'"
    ELSE IF ~item.partsList \/ item.parts = <<>> THEN "Parts must be a non-empty list"
    ELSE None

is_invalid_history(history) ==
    IF history.kind # "list" THEN "History must be a list"
    ELSE LET bad == {i \in 1..Len(history.items) : InvalidItem(history.items[i]) # None}
         IN IF bad = {} THEN None
            ELSE InvalidItem(history.items[CHOOSE i \in bad : \A j \in bad : i <= j])

(***************************************************************************)
(* get_response_headers (main.py 44-50).                                   *)
(***************************************************************************)
get_response_headers ==
    {<<"Access-Control-Allow-Origin", "*">>,
     <<"Access-Control-Allow-Methods", "POST, OPTIONS">>,
     <<"Access-Control-Allow-Headers", "Content-Type, X-Signature">>}

(***************************************************************************)
(* has_valid_signature (main.py 53-64).  hmac.compare_digest raises        *)
(* TypeError when a str argument holds a non-ASCII character.              *)
(***************************************************************************)
Outcome(raised, value) == [raised |-> raised, value |-> value]

compare_digest(signature, expected) ==
    IF ~signature.ascii THEN Outcome(TRUE, FALSE)
    ELSE Outcome(FALSE, signature.digest = expected)

has_valid_signature(request) ==
    IF ~request.signature.present THEN Outcome(FALSE, FALSE)
    ELSE compare_digest(request.signature, Hexdigest(Secret, request.body))

(***************************************************************************)
(* gemini_generate (main.py 67-137), in the order of its statements.       *)
(***************************************************************************)
Truthy(schema) == schema.kind = "object" /\ schema.size > 0

DefaultParameters ==
    [k \in {"temperature", "max_output_tokens", "top_p"} |->
        CASE k = "temperature" -> Num("1")
          [] k = "max_output_tokens" -> Num("8192")
          [] OTHER -> Num("0.95")]

\* mutant: the defaults win over the caller's values
UpdateKeepingDefaults(defaults, overrides) ==
    [k \in DOMAIN defaults \cup DOMAIN overrides |->
        IF k \in DOMAIN defaults THEN defaults[k] ELSE overrides[k]]

\* dict.update: the keys of both, the argument's value where it has the key
Update(defaults, overrides) ==
    [k \in DOMAIN defaults \cup DOMAIN overrides |->
        IF k \in DOMAIN overrides THEN overrides[k] ELSE defaults[k]]

\* lines 70-78: `if parameters: default_parameters.update(parameters)`;
\* an empty dict and None are falsy, update() of a string raises ValueError
MergeParameters(parameters) ==
    IF parameters.kind = "string" THEN [raised |-> TRUE, dict |-> DefaultParameters]
    ELSE IF parameters.kind = "object" /\ DOMAIN parameters.dict # {}
        THEN [raised |-> FALSE, dict |-> Update(DefaultParameters, parameters.dict)]
    ELSE [raised |-> FALSE, dict |-> DefaultParameters]

\* lines 86-107: one typed part per entry; a dict with neither key adds nothing
RECURSIVE TypedParts(_)
TypedParts(parts) ==
    IF parts = <<>> THEN <<>>
    ELSE LET part == Head(parts)
             rest == TypedParts(Tail(parts))
         IN IF part.dict
            THEN IF "functionCall" \in part.keys THEN <<"function_call">> \o rest
                 ELSE IF "functionResponse" \in part.keys THEN <<"function_response">> \o rest
                 ELSE rest
            ELSE <<"text">> \o rest

\* part["functionCall"]["name"] raises KeyError on an incomplete structured part
PartRaises(part) == part.dict /\ part.keys # {} /\ ~part.complete

Content(parts, role) == [parts |-> parts, role |-> role]

\* lines 82-108
TypedHistory(history) ==
    [raised |-> \E i \in 1..Len(history.items) :
                    \E j \in 1..Len(history.items[i].parts) :
                        PartRaises(history.items[i].parts[j]),
     turns |-> [i \in 1..Len(history.items) |->
                    Content(TypedParts(history.items[i].parts), history.items[i].role)]]

\* lines 110-117: the config handed to client.chats.create
ChatConfig(default_parameters, response_schema) ==
    [temperature |-> default_parameters["temperature"],
     top_p |-> default_parameters["top_p"],
     max_output_tokens |-> default_parameters["max_output_tokens"],
     candidate_count |-> Num("1"),
     response_schema |-> response_schema,
     response_mime_type |->
        IF Truthy(response_schema) THEN "application/json" ELSE "text/plain"]

Chat(created, history, config, contents) ==
    [created |-> created, history |-> history, config |-> config, contents |-> contents]

NoChat ==
    Chat(FALSE, <<>>, ChatConfig(DefaultParameters, SchemaValue("absent", 0)), None)

\* The parts a model response can hold: a function call, or a text.
RawPart(function_call, text) == [function_call |-> function_call, text |-> text]

RawParts ==
    {RawPart("find_movies", None), RawPart(None, "[ 1 ]"), RawPart(None, "hello")}

\* json.loads: the parsed value (written canonically), or a raise
JsonLoads(text) ==
    IF text = "[ 1 ]" THEN [raised |-> FALSE, value |-> "[1]"]
    ELSE [raised |-> TRUE, value |-> None]

ResponsePart(tag, value) == [tag |-> tag, value |-> value]

\* mutant: the schema branch is missing, a text part is always returned as text
NormalizePartAsText(part, response_schema) ==
    IF part.function_call # None THEN ResponsePart("functionCall", part.function_call)
    ELSE ResponsePart("text", part.text)

\* lines 126-131, for one part
NormalizePart(part, response_schema) ==
    IF part.function_call # None THEN ResponsePart("functionCall", part.function_call)
    ELSE IF Truthy(response_schema)
        THEN ResponsePart("object", JsonLoads(part.text).value)
    ELSE ResponsePart("text", part.text)

\* lines 123-133
Normalize(parts, response_schema) ==
    [raised |-> \E i \in 1..Len(parts) :
                    /\ parts[i].function_call = None
                    /\ Truthy(response_schema)
                    /\ JsonLoads(parts[i].text).raised,
     parts |-> [i \in 1..Len(parts) |-> NormalizePart(parts[i], response_schema)]]

\* What chat.send_message can do: raise, or return candidates.  A response
\* without candidates makes response.candidates[0] raise.
ModelResult(raised, candidates, parts) ==
    [raised |-> raised, candidates |-> candidates, parts |-> parts]

NoResult == ModelResult(FALSE, 0, <<>>)

ModelResults ==
    {ModelResult(TRUE, 0, <<>>), ModelResult(FALSE, 0, <<>>)}
    \cup {ModelResult(FALSE, 1, ps) : ps \in SeqsUpTo(RawParts, MaxParts)}

\* The client rejects a config value of the wrong type (test_exception_handling).
ClientRejects(config) ==
    \E k \in {"temperature", "top_p", "max_output_tokens"} : config[k].type # "number"

(***************************************************************************)
(* Responses: (body, status, headers) as the handler returns them.         *)
(***************************************************************************)
ErrorBody(message) == [kind |-> "error", error |-> message, parts |-> <<>>]
PartsBody(parts) == [kind |-> "parts", error |-> <<>>, parts |-> parts]
NoBody == [kind |-> "empty", error |-> <<>>, parts |-> <<>>]

Response(body, status, headers) == [body |-> body, status |-> status, headers |-> headers]

NoResponse == Response(NoBody, 0, {})

\* mutant: the exception is re-raised as it is, without the prefix
UnwrappedError(e) == <<e>>

\* line 137: RuntimeError(f"Gemini model error: {str(e)}")
GeminiError(e) == <<"Gemini model error: ", e>>

\* lines 206-208: {"error": str(e)}, 500, get_response_headers(request)
InternalError(message) == Response(ErrorBody(message), 500, get_response_headers)

\* lines 211-212
handle_options_request == Response(NoBody, 204, get_response_headers)

\* incoming_request.get("history", [])
GetHistory(body) ==
    IF body.history.kind = "absent" THEN HistoryValue("list", <<>>) ELSE body.history

\* mutant: only a missing key counts, an explicit null is taken as contents
GetContentsKeyOnly(body) ==
    IF body.contents = "absent" THEN None ELSE body.contents

\* incoming_request.get("contents"): None for a missing key and for null
GetContents(body) ==
    IF body.contents \in {"absent", "null"} THEN None ELSE body.contents

(***************************************************************************)
(* State.                                                                  *)
(***************************************************************************)
IdleRequest ==
    Request("POST", "/generate_content", EmptyBody("object"),
            Signature(FALSE, TRUE, Hexdigest(None, EmptyBody("object"))))

Init ==
    /\ pc = "idle"
    /\ req = IdleRequest
    /\ trail = <<>>
    /\ calls = 0
    /\ chat = NoChat
    /\ raw = NoResult
    /\ resp = NoResponse

\* the handler returns `response`
Reply(response) ==
    /\ pc' = "responded"
    /\ resp' = response
    /\ trail' = Append(trail, IF response.status \in {200, 204} THEN "Responded" ELSE "Failed")

\* the handler goes on to its next statement
Goto(label, stage) ==
    /\ pc' = label
    /\ trail' = Append(trail, stage)
    /\ resp' = resp

(***************************************************************************)
(* cloud_function_entrypoint (main.py 177-208), one action per step.       *)
(***************************************************************************)
ReceiveRequest ==
    /\ pc = "idle"
    /\ \E method \in Methods, path \in Paths, body \in Bodies :
            \E signature \in SignaturesFor(body) :
                req' = Request(method, path, body, signature)
    /\ pc' = "received"
    /\ trail' = <<"Received">>
    /\ UNCHANGED <<calls, chat, raw, resp>>

\* a correctly signed POST to /generate_content carrying a conversation
ReceiveSigned ==
    /\ pc = "idle"
    /\ \E body \in RelayBodies :
            req' = Request("POST", "/generate_content", body,
                           Signature(TRUE, TRUE, Hexdigest(Secret, body)))
    /\ pc' = "received"
    /\ trail' = <<"Received">>
    /\ UNCHANGED <<calls, chat, raw, resp>>

\* lines 179-180
HandleOptions ==
    /\ pc = "received"
    /\ req.method = "OPTIONS"
    /\ Reply(handle_options_request)
    /\ UNCHANGED <<req, calls, chat, raw>>

\* lines 184 and 204-205
Route ==
    /\ pc = "received"
    /\ req.method # "OPTIONS"
    /\ IF req.path = "/generate_content"
       THEN Goto("routed", "Routed")
       ELSE Reply(Response(ErrorBody(<<"Unsupported path">>), 404, get_response_headers))
    /\ UNCHANGED <<req, calls, chat, raw>>

\* lines 185-190: get_json() raises on bytes that are no JSON, .get raises
\* AttributeError on a body that is no object
GetJson ==
    /\ pc = "routed"
    /\ CASE req.body.json = "invalid" -> Reply(InternalError(<<"400 Bad Request">>))
         [] req.body.json = "array" -> Reply(InternalError(<<"AttributeError">>))
         [] OTHER -> Goto("parsed", "Parsed")
    /\ UNCHANGED <<req, calls, chat, raw>>

\* lines 192-193
CheckHistory ==
    /\ pc = "parsed"
    /\ IF is_invalid_history(GetHistory(req.body)) # None
       THEN Reply(Response(ErrorBody(<<"Invalid history format">>), 400, {}))
       ELSE Goto("validated", "Validated")
    /\ UNCHANGED <<req, calls, chat, raw>>

\* lines 195-196
CheckContents ==
    /\ pc = "validated"
    /\ IF GetContents(req.body) = None
       THEN Reply(Response(ErrorBody(<<"Missing 'contents' parameter">>), 400, {}))
       ELSE Goto("has_contents", "ContentsChecked")
    /\ UNCHANGED <<req, calls, chat, raw>>

\* lines 198-199
CheckSignature ==
    /\ pc = "has_contents"
    /\ LET valid == has_valid_signature(req)
       IN CASE valid.raised -> Reply(InternalError(<<"TypeError">>))
            [] ~valid.raised /\ ~valid.value ->
                    Reply(Response(ErrorBody(<<"Invalid signature">>), 403, {}))
            [] OTHER -> Goto("authenticated", "Authenticated")
    /\ UNCHANGED <<req, calls, chat, raw>>

\* line 201, gemini_generate lines 68-117: merge, translate, create the chat
CreateChat ==
    /\ pc = "authenticated"
    /\ LET merged == MergeParameters(req.body.parameters)
           typed == TypedHistory(GetHistory(req.body))
       IN CASE merged.raised ->
                    Reply(InternalError(GeminiError("ValueError"))) /\ chat' = chat
            [] ~merged.raised /\ typed.raised ->
                    Reply(InternalError(GeminiError("KeyError"))) /\ chat' = chat
            [] OTHER ->
                    /\ Goto("chat", "Translated")
                    /\ chat' = Chat(TRUE, typed.turns,
                                    ChatConfig(merged.dict, req.body.response_schema),
                                    GetContents(req.body))
    /\ UNCHANGED <<req, calls, raw>>

\* mutant: a failed call is tried once more
SendMessageRetrying ==
    /\ pc = "chat"
    /\ \E result \in ModelResults :
        /\ ClientRejects(chat.config) => result.raised
        /\ IF result.raised
           THEN Reply(InternalError(GeminiError("ClientError"))) /\ calls' = calls + 2
           ELSE Goto("invoked", "Invoked") /\ calls' = calls + 1
        /\ raw' = result
    /\ UNCHANGED <<req, chat>>

\* gemini_generate line 120: the one outbound call
SendMessage ==
    /\ pc = "chat"
    /\ calls' = calls + 1
    /\ \E result \in ModelResults :
        /\ ClientRejects(chat.config) => result.raised
        /\ IF result.raised
           THEN Reply(InternalError(GeminiError("ClientError")))
           ELSE Goto("invoked", "Invoked")
        /\ raw' = result
    /\ UNCHANGED <<req, chat>>

\* gemini_generate lines 123-133, then line 202
NormalizeResponse ==
    /\ pc = "invoked"
    /\ LET normalized == Normalize(raw.parts, req.body.response_schema)
       IN CASE raw.candidates = 0 -> Reply(InternalError(GeminiError("IndexError")))
            [] raw.candidates # 0 /\ normalized.raised ->
                    Reply(InternalError(GeminiError("JSONDecodeError")))
            [] OTHER ->
                    Reply(Response(PartsBody(normalized.parts), 200, get_response_headers))
    /\ UNCHANGED <<req, calls, chat, raw>>

\* the response is sent; the process waits for the next request
Close ==
    /\ pc = "responded"
    /\ pc' = "idle"
    /\ req' = IdleRequest
    /\ trail' = <<>>
    /\ calls' = 0
    /\ chat' = NoChat
    /\ raw' = NoResult
    /\ resp' = NoResponse

Next ==
    \/ ReceiveRequest
    \/ HandleOptions
    \/ Route
    \/ GetJson
    \/ CheckHistory
    \/ CheckContents
    \/ CheckSignature
    \/ CreateChat
    \/ SendMessage
    \/ NormalizeResponse
    \/ Close

Spec == Init /\ [][Next]_vars

\* The handler on signed conversations only (the translation and the call).
RelayNext ==
    \/ ReceiveSigned
    \/ Route
    \/ GetJson
    \/ CheckHistory
    \/ CheckContents
    \/ CheckSignature
    \/ CreateChat
    \/ SendMessage
    \/ NormalizeResponse
    \/ Close

RelaySpec == Init /\ [][RelayNext]_vars

(***************************************************************************)
(* Vocabulary of the claims, stated on the request and the response.       *)
(***************************************************************************)
Responded == pc = "responded"

GenerateContentPost ==
    req.method = "POST" /\ req.path = "/generate_content" /\ req.body.json = "object"

\* the header is the hex HMAC-SHA256 of the raw bytes under the shared secret
CorrectlySigned ==
    /\ req.signature.present
    /\ req.signature.ascii
    /\ req.signature.digest = Hexdigest(Secret, req.body)

ElementMalformed(item) ==
    \/ ~item.dict
    \/ ~({"role", "parts"} \subseteq item.keys)
    \/ item.role \notin {"user", "model"}
    \/ ~item.partsList
    \/ Len(item.parts) = 0

\* the supplied history fails one of the documented checks
HistoryMalformed ==
    /\ req.body.history.kind # "absent"
    /\ \/ req.body.history.kind # "list"
       \/ \E i \in 1..Len(req.body.history.items) :
            ElementMalformed(req.body.history.items[i])

ContentsAbsent == req.body.contents \in {"absent", "null"}

ErrorResponse(status, message) ==
    resp.status = status /\ resp.body.kind = "error" /\ resp.body.error = <<message>>

StageIndex(stage) == {i \in 1..Len(trail) : trail[i] = stage}

(***************************************************************************)
(* C1: for every POST to /generate_content the signature check precedes    *)
(* the history and contents checks, so a request whose signature is        *)
(* absent or wrong is answered 403, never 400, whatever its body holds.    *)
(* The code checks history and contents first.                             *)
(***************************************************************************)
C1_SignatureCheckedFirst ==
    (Responded /\ GenerateContentPost) =>
        /\ \A i \in StageIndex("Validated") \cup StageIndex("ContentsChecked") :
                \E j \in StageIndex("Authenticated") : j < i
        /\ ~CorrectlySigned => resp.status = 403

(***************************************************************************)
(* C2: the number of model-client calls of a request is 0 for every 400,   *)
(* 403 and 404 response and exactly 1 otherwise, never more than 1.        *)
(***************************************************************************)
C2_OneCallUnlessRejected ==
    (Responded /\ req.method = "POST") =>
        calls = IF resp.status \in {400, 403, 404} THEN 0 ELSE 1

\* C2 as amended: never more than one call; none for a 204, 400, 403 or 404
\* response, exactly one for a 200 response, and for a 500 response one
\* exactly when the failure came after the chat was created (none when the
\* body, the signature comparison, the parameters or the history translation
\* raised before the call).
C2_AtMostOneCall ==
    /\ calls <= 1
    /\ Responded =>
        /\ resp.status \in {204, 400, 403, 404} => calls = 0
        /\ resp.status = 200 => calls = 1
        /\ resp.status = 500 => (calls = 1 <=> chat.created)

\* an authenticated request failed before the model was called
C2_Witness ==
    /\ Responded
    /\ resp.status = 500
    /\ calls = 0
    /\ StageIndex("Authenticated") # {}

(***************************************************************************)
(* C3: for a POST to /generate_content with a valid history and contents   *)
(* present, the response is 403 {"error": "Invalid signature"} exactly      *)
(* when X-Signature is absent or differs from the hex HMAC of the raw      *)
(* bytes; a mismatched signature never yields 200 or 500.                  *)
(***************************************************************************)
C3_Mismatch403 ==
    (Responded /\ GenerateContentPost /\ ~HistoryMalformed /\ ~ContentsAbsent) =>
        /\ ErrorResponse(403, "Invalid signature") <=> ~CorrectlySigned
        /\ ~CorrectlySigned => resp.status \notin {200, 500}

C6_HistoryWithoutContentsRelayed ==
    (Responded /\ GenerateContentPost /\ CorrectlySigned /\ ContentsAbsent
        /\ req.body.history.kind = "list" /\ Len(req.body.history.items) > 0
        /\ ~HistoryMalformed) =>
        /\ calls = 1
        /\ resp.status = 200
        /\ resp.body.kind = "parts"
        /\ Len(resp.body.parts) > 0
        /\ \A i \in 1..Len(resp.body.parts) : resp.body.parts[i].tag = "text"

Supplies(k) ==
    req.body.parameters.kind = "object" /\ k \in DOMAIN req.body.parameters.dict

DocumentedDefault(k) ==
    CASE k = "temperature" -> Num("1")
      [] k = "top_p" -> Num("0.95")
      [] k = "max_output_tokens" -> Num("8192")

(***************************************************************************)
(* C7: for every request that reaches the model, the config passed to the  *)
(* client has the caller's temperature, top_p and max_output_tokens where  *)
(* 'parameters' supplies the key and the default (1, 0.95, 8192) where it  *)
(* does not; candidate_count is 1 whatever the caller supplies.            *)
(***************************************************************************)
C7_EffectiveParameters ==
    calls = 1 =>
        /\ \A k \in {"temperature", "top_p", "max_output_tokens"} :
            chat.config[k] =
                IF Supplies(k) THEN req.body.parameters.dict[k] ELSE DocumentedDefault(k)
        /\ chat.config.candidate_count = Num("1")

\* the caller overrode top_p and asked for 5 candidates
C7_Witness ==
    /\ calls = 1
    /\ Supplies("candidate_count")
    /\ Supplies("top_p")
    /\ chat.config.top_p = Num("0.5")
    /\ chat.config.temperature = Num("1")

SchemaCarried == req.body.response_schema.kind # "absent"

NonEmptySchema ==
    req.body.response_schema.kind = "object" /\ req.body.response_schema.size > 0

Tags == {resp.body.parts[i].tag : i \in 1..Len(resp.body.parts)}

StructuredMode == chat.config.response_mime_type = "application/json"

UnparsablePart ==
    \E i \in 1..Len(raw.parts) :
        raw.parts[i].function_call = None /\ raw.parts[i].text = "hello"

C10_CorsOnEveryResponse ==
    Responded =>
        {<<"Access-Control-Allow-Origin", "*">>,
         <<"Access-Control-Allow-Methods", "POST, OPTIONS">>,
         <<"Access-Control-Allow-Headers", "Content-Type, X-Signature">>}
            \subseteq resp.headers

\* what the client call received under key k of its config ("absent": nothing)
PassedToClient(k) ==
    IF k \in DOMAIN chat.config THEN chat.config[k] ELSE "absent"

(***************************************************************************)
(* C11: for every request that reaches the model, the 'tools' list and     *)
(* the 'system_instruction' string of the body are passed to the           *)
(* model-client call unchanged.                                            *)
(***************************************************************************)
C11_ToolsAndInstructionPassed ==
    calls = 1 =>
        /\ PassedToClient("tools") = req.body.tools
        /\ PassedToClient("system_instruction") = req.body.system_instruction

(***************************************************************************)
(* C12: every request whose path is not /generate_content is answered 404  *)
(* with an error body, whatever its method, signature and body, and        *)
(* without any model-client call.                                          *)
(***************************************************************************)
C12_UnsupportedPath404 ==
    (Responded /\ req.path # "/generate_content") =>
        /\ resp.status = 404
        /\ resp.body.kind = "error"
        /\ calls = 0

\* the typed part the documentation gives an entry of "parts"
DocumentedKind(part) ==
    IF part.dict /\ "functionCall" \in part.keys THEN "function_call"
    ELSE IF part.dict /\ "functionResponse" \in part.keys THEN "function_response"
    ELSE "text"

(***************************************************************************)
(* C13: for every history that passed validation, the translated history   *)
(* has one turn per element, in order and with the same role, and each     *)
(* turn has exactly one typed part per entry of 'parts', in order: a       *)
(* function call for an object with 'functionCall', a function response    *)
(* for one with 'functionResponse', a text part for every other entry.     *)
(* So no translated turn has an empty parts list.                          *)
(***************************************************************************)
C13_OneTypedPartPerEntry ==
    chat.created =>
        LET items == GetHistory(req.body).items
        IN /\ Len(chat.history) = Len(items)
           /\ \A i \in 1..Len(items) :
                /\ chat.history[i].role = items[i].role
                /\ chat.history[i].parts # <<>>
                /\ Len(chat.history[i].parts) = Len(items[i].parts)
                /\ \A j \in 1..Len(items[i].parts) :
                        chat.history[i].parts[j] = DocumentedKind(items[i].parts[j])

(***************************************************************************)
(* C14: for every request that reaches the model, structured mode is       *)
(* selected exactly when the body carries a response_schema, the empty     *)
(* object {} included: the MIME type sent is application/json and the      *)
(* parts that are no function calls are parsed as JSON if a schema is      *)
(* present; it is text/plain and they are returned as text only if it is   *)
(* absent.                                                                 *)
(***************************************************************************)
C14_SchemaPresenceSelectsMode ==
    calls = 1 =>
        /\ chat.config.response_mime_type =
                IF SchemaCarried THEN "application/json" ELSE "text/plain"
        /\ (Responded /\ resp.status = 200) =>
                \A i \in 1..Len(raw.parts) :
                    raw.parts[i].function_call = None =>
                        resp.body.parts[i].tag = IF SchemaCarried THEN "object" ELSE "text"

\* the element the normalizer is documented to emit for one raw part
DocumentedElement(part) ==
    IF part.function_call # None THEN ResponsePart("functionCall", part.function_call)
    ELSE IF SchemaCarried THEN ResponsePart("object", JsonLoads(part.text).value)
    ELSE ResponsePart("text", part.text)

(***************************************************************************)
(* C15: the list of parts returned for the first candidate is normalized   *)
(* element by element: the output has the same length, and its i-th        *)
(* element is {"functionCall": ...} if the i-th raw part is a function     *)
(* call, else {"object": parsed JSON} if a response_schema was supplied,   *)
(* else {"text": raw text}; an empty list of raw parts is answered 200     *)
(* with an empty array.                                                    *)
(***************************************************************************)
C15_PartwiseNormalization ==
    (Responded /\ calls = 1 /\ ~raw.raised /\ raw.candidates = 1) =>
        /\ resp.status = 200 =>
                /\ Len(resp.body.parts) = Len(raw.parts)
                /\ \A i \in 1..Len(raw.parts) :
                        resp.body.parts[i] = DocumentedElement(raw.parts[i])
        /\ raw.parts = <<>> =>
                /\ resp.status = 200
                /\ resp.body = PartsBody(<<>>)
====
